---- MODULE Spec2Model ----
(***************************************************************************)
(* A model of the note store of mcp-notes (src/server.py, NotesStorage):   *)
(* the in-memory document, the backing file with the temporary files of    *)
(* the atomic save, and one action per storage operation.  The save is     *)
(* split at its system calls (mkstemp, write, replace, unlink) because     *)
(* another process can look at the directory between them.                 *)
(***************************************************************************)
EXTENDS Integers, Sequences, FiniteSets, TLC

VARIABLES
    live,       \* the store instances (processes) that exist in this run
    data,       \* data[s]: NotesStorage.data, the in-memory document of s
    target,     \* the backing file NOTES_FILE: [exists, content]
    tmp,        \* tmp[s]: the temporary file of the call s is in
    pc,         \* pc[s]: "idle", a step of _save, or "returned" (the outcome
                \* of the call is with the caller)
    result,     \* result[s]: the call s is in, and its outcome
    pre,        \* pre[s]: document and backing file when the call started
    attempted,  \* attempted[s]: the call has entered _save
    clock,      \* the wall clock, in ticks
    nextId,     \* number of identifiers uuid4 has handed out so far
    faults,     \* number of system calls that have failed so far
    litter,     \* number of temporary files that finished calls left behind
    persisted   \* the document of the save that last replaced the backing file

vars == <<live, data, target, tmp, pc, result, pre, attempted, clock, nextId, faults,
          litter, persisted>>

----------------------------------------------------------------------------
(* Bounds of the model *)

MaxIds == 2     \* notes created in one run
MaxTick == 1    \* last clock tick a run reaches
MaxFaults == 1  \* failures of mkstemp, write and replace in one run

Stores == {"A", "B"}

----------------------------------------------------------------------------
(* Python values *)

None == [some |-> FALSE]
Some(x) == [some |-> TRUE, v |-> x]

\* x in list
In(x, list) == \E i \in 1..Len(list) : list[i] = x

\* list.append(x)
Append1(list, x) == list \o <<x>>

\* list.pop() for list.pop(i): the last element goes
Pop_Last(list, i) == SubSeq(list, 1, Len(list) - 1)

\* list.pop(i), i counted from 1
Pop(list, i) == SubSeq(list, 1, i - 1) \o SubSeq(list, i + 1, Len(list))

\* str(uuid.uuid4()): the n-th identifier drawn; all draws differ
UuidPool == <<"u1", "u2", "u3", "u4", "u5">>
Uuid(n) == UuidPool[n]

\* datetime.utcnow().isoformat() + 'Z' as a sequence of character codes.
\* A tick is half a second; the date and the whole seconds up to the last
\* digit are the same in every timestamp of a run and are left out, and the
\* six digits of the microseconds are cut to the first.  isoformat() omits
\* the fraction altogether when the microseconds are 0.
IsoFormat(t) ==
    LET sec == t \div 2
        frac == IF t % 2 = 1 THEN <<46, 53>> ELSE <<>>    \* ".5"
    IN  <<48 + sec>> \o frac \o <<90>>                    \* digit, "Z"

----------------------------------------------------------------------------
(* The document *)

\* _load: the document of a store that finds no backing file
SeedDocument ==
    [tag_schema |->
        [category |-> <<"work", "personal", "learning">>,
         type     |-> <<"project", "idea", "reference", "todo", "note">>,
         priority |-> <<"active", "soon", "someday", "eventually", "maybe",
                        "not-actionable">>,
         topics   |-> <<"mcp", "ai", "coding", "design">>],
     notes |-> <<>>]

valid_dimensions == <<"category", "type", "priority", "topics">>

----------------------------------------------------------------------------
(* json.dump / json.load, on token sequences.  Whitespace (indent=2) is not *)
(* a token.  A string literal is the token [k |-> "str", v |-> the string]. *)

P(c) == [k |-> "punct", v |-> c]
S(x) == [k |-> "str", v |-> x]

IsP(tok, c) == tok.k = "punct" /\ tok.v = c

RECURSIVE JoinComma(_)
JoinComma(parts) ==
    IF Len(parts) = 0 THEN <<>>
    ELSE IF Len(parts) = 1 THEN parts[1]
    ELSE parts[1] \o <<P(",")>> \o JoinComma(Tail(parts))

DumpList(parts) == <<P("[")>> \o JoinComma(parts) \o <<P("]")>>

\* members: a sequence of <<key, tokens of the value>>
DumpDict(members) ==
    <<P("{")>>
    \o JoinComma([i \in 1..Len(members) |->
                    <<S(members[i][1]), P(":")>> \o members[i][2]])
    \o <<P("}")>>

DumpStrList(list) == DumpList([i \in 1..Len(list) |-> <<S(list[i])>>])

\* DumpNote with the creation time written under both timestamp keys
DumpNote_CreatedTwice(n) ==
    DumpDict(<<
        <<"id", <<S(n.id)>> >>,
        <<"title", <<S(n.title)>> >>,
        <<"content", <<S(n.content)>> >>,
        <<"tags", DumpDict(<<
            <<"category", <<S(n.tags.category)>> >>,
            <<"type", <<S(n.tags.type)>> >>,
            <<"priority", <<S(n.tags.priority)>> >>,
            <<"topics", DumpStrList(n.tags.topics)>> >>)>>,
        <<"created", <<S(n.created)>> >>,
        <<"updated", <<S(n.created)>> >> >>)

DumpNote(n) ==
    DumpDict(<<
        <<"id", <<S(n.id)>> >>,
        <<"title", <<S(n.title)>> >>,
        <<"content", <<S(n.content)>> >>,
        <<"tags", DumpDict(<<
            <<"category", <<S(n.tags.category)>> >>,
            <<"type", <<S(n.tags.type)>> >>,
            <<"priority", <<S(n.tags.priority)>> >>,
            <<"topics", DumpStrList(n.tags.topics)>> >>)>>,
        <<"created", <<S(n.created)>> >>,
        <<"updated", <<S(n.updated)>> >> >>)

\* json.dump(self.data, f, indent=2, ensure_ascii=False)
JsonDump(doc) ==
    DumpDict(<<
        <<"tag_schema", DumpDict(<<
            <<"category", DumpStrList(doc.tag_schema.category)>>,
            <<"type", DumpStrList(doc.tag_schema.type)>>,
            <<"priority", DumpStrList(doc.tag_schema.priority)>>,
            <<"topics", DumpStrList(doc.tag_schema.topics)>> >>)>>,
        <<"notes", DumpList([i \in 1..Len(doc.notes) |-> DumpNote(doc.notes[i])])>> >>)

\* The parser: each operator returns [ok, v, i]: whether a value was read,
\* the value, and the index of the first token after it.
ParseFail == [ok |-> FALSE, v |-> <<>>, i |-> 0]

RECURSIVE ParseValue(_, _), ParseElems(_, _, _), ParseMembers(_, _, _)

\* the elements of an array after "[" and the elements read so far
ParseElems(toks, i, acc) ==
    LET e == ParseValue(toks, i)
    IN  IF ~e.ok \/ e.i > Len(toks) THEN ParseFail
        ELSE IF IsP(toks[e.i], ",") THEN ParseElems(toks, e.i + 1, Append1(acc, e.v))
        ELSE IF IsP(toks[e.i], "]") THEN [ok |-> TRUE, v |-> Append1(acc, e.v), i |-> e.i + 1]
        ELSE ParseFail

\* the members of an object after "{" and the members read so far
ParseMembers(toks, i, acc) ==
    IF i + 2 > Len(toks) \/ toks[i].k # "str" \/ ~IsP(toks[i + 1], ":") THEN ParseFail
    ELSE
        LET e == ParseValue(toks, i + 2)
            obj == (toks[i].v :> e.v) @@ acc
        IN  IF ~e.ok \/ e.i > Len(toks) THEN ParseFail
            ELSE IF IsP(toks[e.i], ",") THEN ParseMembers(toks, e.i + 1, obj)
            ELSE IF IsP(toks[e.i], "}") THEN [ok |-> TRUE, v |-> obj, i |-> e.i + 1]
            ELSE ParseFail

ParseValue(toks, i) ==
    IF i > Len(toks) THEN ParseFail
    ELSE IF toks[i].k = "str" THEN [ok |-> TRUE, v |-> toks[i].v, i |-> i + 1]
    ELSE IF IsP(toks[i], "[") THEN
        IF i + 1 <= Len(toks) /\ IsP(toks[i + 1], "]")
        THEN [ok |-> TRUE, v |-> <<>>, i |-> i + 2]
        ELSE ParseElems(toks, i + 1, <<>>)
    ELSE IF IsP(toks[i], "{") THEN
        IF i + 1 <= Len(toks) /\ IsP(toks[i + 1], "}")
        THEN [ok |-> TRUE, v |-> <<>>, i |-> i + 2]
        ELSE ParseMembers(toks, i + 1, <<>>)
    ELSE ParseFail

\* json.load(f): the whole content must be one value
JsonLoad(toks) ==
    LET r == ParseValue(toks, 1)
    IN  IF r.ok /\ r.i = Len(toks) + 1 THEN [ok |-> TRUE, v |-> r.v]
        ELSE [ok |-> FALSE, v |-> <<>>]

----------------------------------------------------------------------------
(* Files *)

NoFile == [exists |-> FALSE, content |-> <<>>]
File(c) == [exists |-> TRUE, content |-> c]

\* NotesStorage._load on the backing file as it is now
Load(file) ==
    IF ~file.exists THEN [ok |-> TRUE, v |-> SeedDocument]
    ELSE JsonLoad(file.content)

----------------------------------------------------------------------------
(* validate_tags *)

NoMsg == [text |-> "", value |-> "", valid |-> <<>>]

\* f"Invalid <field> '<value>'. Must be one of: <', '.join(valid)>"
InvalidMsg(field, value, valid) == [text |-> field, value |-> value, valid |-> valid]

\* f"Note with ID '<id>' not found"
NotFoundMsg(note_id) == [text |-> "not found", value |-> note_id, valid |-> <<>>]

\* FirstBadTopic for a loop that goes on after a topic that is not in the
\* schema: the last such element
FirstBadTopic_KeepLast(schema, topics, i) ==
    LET bad == {k \in i..Len(topics) : ~In(topics[k], schema.topics)}
    IN  IF bad = {} THEN 0 ELSE CHOOSE k \in bad : \A m \in bad : m <= k

\* the first element of topics, from index i on, that is not in the schema; 0 if none
RECURSIVE FirstBadTopic(_, _, _)
FirstBadTopic(schema, topics, i) ==
    IF i > Len(topics) THEN 0
    ELSE IF ~In(topics[i], schema.topics) THEN i
    ELSE FirstBadTopic(schema, topics, i + 1)

\* validate_tags without the loop over topics
validate_tags_SkipTopics(schema, category, type_tag, priority, topics) ==
    IF category.some /\ ~In(category.v, schema.category)
    THEN [ok |-> FALSE, msg |-> InvalidMsg("Invalid category", category.v, schema.category)]
    ELSE IF type_tag.some /\ ~In(type_tag.v, schema.type)
    THEN [ok |-> FALSE, msg |-> InvalidMsg("Invalid type", type_tag.v, schema.type)]
    ELSE IF priority.some /\ ~In(priority.v, schema.priority)
    THEN [ok |-> FALSE, msg |-> InvalidMsg("Invalid priority", priority.v, schema.priority)]
    ELSE [ok |-> TRUE, msg |-> NoMsg]

\* NotesStorage.validate_tags: (is_valid, error_message)
validate_tags(schema, category, type_tag, priority, topics) ==
    IF category.some /\ ~In(category.v, schema.category)
    THEN [ok |-> FALSE, msg |-> InvalidMsg("Invalid category", category.v, schema.category)]
    ELSE IF type_tag.some /\ ~In(type_tag.v, schema.type)
    THEN [ok |-> FALSE, msg |-> InvalidMsg("Invalid type", type_tag.v, schema.type)]
    ELSE IF priority.some /\ ~In(priority.v, schema.priority)
    THEN [ok |-> FALSE, msg |-> InvalidMsg("Invalid priority", priority.v, schema.priority)]
    ELSE IF topics.some /\ FirstBadTopic(schema, topics.v, 1) # 0
    THEN [ok |-> FALSE,
          msg |-> InvalidMsg("Invalid topic",
                             topics.v[FirstBadTopic(schema, topics.v, 1)], schema.topics)]
    ELSE [ok |-> TRUE, msg |-> NoMsg]

\* index of the first note with this id; 0 if there is none
RECURSIVE FindIndex(_, _, _)
FindIndex(notes, note_id, i) ==
    IF i > Len(notes) THEN 0
    ELSE IF notes[i].id = note_id THEN i
    ELSE FindIndex(notes, note_id, i + 1)

----------------------------------------------------------------------------
(* The arguments the operations are called with *)

\* titles, as character codes: "Ab", "b2"
TitleAb == <<65, 98>>
TitleB2 == <<98, 50>>

CreateInputs ==
    { [title |-> TitleAb, content |-> "c1", category |-> "work", type_tag |-> "todo",
       priority |-> "active", topics |-> Some(<<"ai", "mcp", "ai">>)],
      [title |-> TitleAb, content |-> "c1", category |-> "bogus", type_tag |-> "todo",
       priority |-> "active", topics |-> None],
      [title |-> TitleAb, content |-> "c1", category |-> "work", type_tag |-> "todo",
       priority |-> "active", topics |-> Some(<<"ai", "zzz">>)] }

UpdateInputs ==
    { [title |-> Some(TitleB2), content |-> Some("c2"), category |-> None,
       type_tag |-> None, priority |-> Some("urgent"), topics |-> None],
      [title |-> None, content |-> None, category |-> Some("personal"),
       type_tag |-> None, priority |-> None, topics |-> Some(<<>>)],
      [title |-> Some(TitleB2), content |-> None, category |-> Some("bogus"),
       type_tag |-> None, priority |-> None, topics |-> None],
      [title |-> Some(TitleB2), content |-> Some("c2"), category |-> Some("personal"),
       type_tag |-> Some("idea"), priority |-> Some("soon"), topics |-> Some(<<"mcp", "zzz">>)] }

ValidateInputs ==
    { [title |-> None, content |-> None, category |-> Some("personal"),
       type_tag |-> None, priority |-> None, topics |-> Some(<<>>)],
      [title |-> None, content |-> None, category |-> None,
       type_tag |-> Some("memo"), priority |-> Some("urgent"), topics |-> Some(<<"zzz">>)],
      [title |-> None, content |-> None, category |-> None,
       type_tag |-> None, priority |-> None, topics |-> None],
      [title |-> None, content |-> None, category |-> Some("bogus"),
       type_tag |-> Some("memo"), priority |-> Some("active"), topics |-> None],
      [title |-> None, content |-> None, category |-> None,
       type_tag |-> None, priority |-> Some("urgent"), topics |-> Some(<<"mcp", "yyy", "zzz">>)] }

NoteIds == {Uuid(n) : n \in 1..MaxIds} \cup {"missing"}

AddTagsInputs ==
    { [dimension |-> "priority", tags |-> <<"urgent", "active", "urgent">>],
      [dimension |-> "colour", tags |-> <<"red">>] }

----------------------------------------------------------------------------
(* The state after construction *)

NoCall == [op |-> "", args |-> <<>>, status |-> "", err |-> "", msg |-> NoMsg, value |-> <<>>]

NoSnapshot == [data |-> SeedDocument, disk |-> NoFile]

Snapshot(s) == [data |-> data[s], disk |-> target]

InitWith(stores) ==
    /\ live = stores
    /\ target = NoFile
    /\ data = [s \in Stores |-> Load(NoFile).v]
    /\ tmp = [s \in Stores |-> NoFile]
    /\ pc = [s \in Stores |-> IF s \in stores THEN "idle" ELSE "unborn"]
    /\ result = [s \in Stores |-> NoCall]
    /\ pre = [s \in Stores |-> NoSnapshot]
    /\ attempted = [s \in Stores |-> FALSE]
    /\ clock = 0
    /\ nextId = 0
    /\ faults = 0
    /\ litter = 0
    /\ persisted = None

\* one server process, no backing file yet
Init == InitWith({"A"})

----------------------------------------------------------------------------
(* How a call starts and ends *)

Running(op, args, value) ==
    [op |-> op, args |-> args, status |-> "running", err |-> "", msg |-> NoMsg,
     value |-> value]

Raised(op, args, err, msg) ==
    [op |-> op, args |-> args, status |-> "error", err |-> err, msg |-> msg,
     value |-> <<>>]

Returned(op, args, value) ==
    [op |-> op, args |-> args, status |-> "ok", err |-> "", msg |-> NoMsg,
     value |-> value]

\* a call that raises before it changes anything
Fail(s, op, args, msg) ==
    /\ result' = [result EXCEPT ![s] = Raised(op, args, "ValueError", msg)]
    /\ pc' = [pc EXCEPT ![s] = "returned"]
    /\ pre' = [pre EXCEPT ![s] = Snapshot(s)]
    /\ UNCHANGED <<live, data, target, tmp, attempted, clock, nextId, faults, litter, persisted>>

\* MutateAndSave without the call of self._save()
MutateAndSave_NoSave(s, op, args, doc, value) ==
    /\ data' = [data EXCEPT ![s] = doc]
    /\ pc' = [pc EXCEPT ![s] = "returned"]
    /\ result' = [result EXCEPT ![s] = Returned(op, args, value)]
    /\ pre' = [pre EXCEPT ![s] = Snapshot(s)]
    /\ UNCHANGED <<live, target, tmp, attempted, faults, litter, persisted>>

\* a call that changes the document to doc and then calls self._save()
MutateAndSave(s, op, args, doc, value) ==
    /\ data' = [data EXCEPT ![s] = doc]
    /\ pc' = [pc EXCEPT ![s] = "mkstemp"]
    /\ result' = [result EXCEPT ![s] = Running(op, args, value)]
    /\ pre' = [pre EXCEPT ![s] = Snapshot(s)]
    /\ attempted' = [attempted EXCEPT ![s] = TRUE]
    /\ UNCHANGED <<live, target, tmp, faults, litter, persisted>>

\* Read for a read operation that ends with self._save()
Read_ThenSave(s, op, args, value) ==
    /\ pc' = [pc EXCEPT ![s] = "mkstemp"]
    /\ result' = [result EXCEPT ![s] = Running(op, args, value)]
    /\ pre' = [pre EXCEPT ![s] = Snapshot(s)]
    /\ attempted' = [attempted EXCEPT ![s] = TRUE]
    /\ UNCHANGED <<live, data, target, tmp, clock, nextId, faults, litter, persisted>>

\* a call that only reads
Read(s, op, args, value) ==
    /\ result' = [result EXCEPT ![s] = Returned(op, args, value)]
    /\ pc' = [pc EXCEPT ![s] = "returned"]
    /\ pre' = [pre EXCEPT ![s] = Snapshot(s)]
    /\ UNCHANGED <<live, data, target, tmp, attempted, clock, nextId, faults, litter, persisted>>

\* the caller has the outcome; the store waits for the next call
Return(s) ==
    /\ s \in live
    /\ pc[s] = "returned"
    /\ pc' = [pc EXCEPT ![s] = "idle"]
    /\ result' = [result EXCEPT ![s] = NoCall]
    /\ pre' = [pre EXCEPT ![s] = NoSnapshot]
    /\ attempted' = [attempted EXCEPT ![s] = FALSE]
    /\ tmp' = [tmp EXCEPT ![s] = NoFile]
    /\ litter' = IF tmp[s].exists THEN litter + 1 ELSE litter
    /\ UNCHANGED <<live, data, target, clock, nextId, faults, persisted>>

----------------------------------------------------------------------------
(* _save, one action per system call *)

\* what a write that fails leaves in the file: a proper prefix of the text
Cuts(text) == {0, Len(text) \div 2, Len(text) - 1}

\* the OSError that the call named raised
OSErrorIn(call) == [text |-> "OSError", value |-> call, valid |-> <<>>]

\* the exception is in flight inside _save: the except clause has it
SaveCatch(s, msg) == result' = [result EXCEPT ![s].msg = msg]

\* the exception leaves _save and the operation that called it
SaveRaise(s, msg) ==
    /\ result' = [result EXCEPT ![s] = Raised(result[s].op, result[s].args, "OSError", msg)]
    /\ pc' = [pc EXCEPT ![s] = "returned"]

\* a system call may fail
Fault == faults < MaxFaults /\ faults' = faults + 1

\* tempfile.mkstemp(dir=..., prefix='.notes_', suffix='.json.tmp'); the file
\* has a name no other file has
SaveMkstemp(s) ==
    /\ pc[s] = "mkstemp"
    /\ tmp' = [tmp EXCEPT ![s] = File(<<>>)]
    /\ pc' = [pc EXCEPT ![s] = "write"]
    /\ UNCHANGED <<live, data, target, result, pre, attempted, clock, nextId, faults, litter, persisted>>

\* mkstemp raises: it is outside the try, nothing to clean up
SaveMkstempFail(s) ==
    /\ pc[s] = "mkstemp"
    /\ Fault
    /\ SaveRaise(s, OSErrorIn("tempfile.mkstemp"))
    /\ UNCHANGED <<live, data, target, tmp, pre, attempted, clock, nextId, litter, persisted>>

\* with os.fdopen(temp_fd, 'w') as f: json.dump(self.data, f, ...)
SaveWrite(s) ==
    /\ pc[s] = "write"
    /\ tmp' = [tmp EXCEPT ![s] = File(JsonDump(data[s]))]
    /\ pc' = [pc EXCEPT ![s] = "replace"]
    /\ UNCHANGED <<live, data, target, result, pre, attempted, clock, nextId, faults, litter, persisted>>

\* SaveWriteFail for a save that writes into the backing file itself
SaveWriteFail_InPlace(s) ==
    /\ pc[s] = "write"
    /\ Fault
    /\ \E k \in Cuts(JsonDump(data[s])) :
          target' = File(SubSeq(JsonDump(data[s]), 1, k))
    /\ pc' = [pc EXCEPT ![s] = "unlink"]
    /\ SaveCatch(s, OSErrorIn("json.dump"))
    /\ UNCHANGED <<live, data, tmp, pre, attempted, clock, nextId, litter, persisted>>

\* the write or the close raises part-way
SaveWriteFail(s) ==
    /\ pc[s] = "write"
    /\ Fault
    /\ \E k \in Cuts(JsonDump(data[s])) :
          tmp' = [tmp EXCEPT ![s] = File(SubSeq(JsonDump(data[s]), 1, k))]
    /\ pc' = [pc EXCEPT ![s] = "unlink"]
    /\ SaveCatch(s, OSErrorIn("json.dump"))
    /\ UNCHANGED <<live, data, target, pre, attempted, clock, nextId, litter, persisted>>

\* SaveReplace with a rename that does not replace a file that exists
SaveReplace_IfAbsent(s) ==
    /\ pc[s] = "replace"
    /\ target' = IF target.exists THEN target ELSE tmp[s]
    /\ tmp' = [tmp EXCEPT ![s] = NoFile]
    /\ pc' = [pc EXCEPT ![s] = "returned"]
    /\ result' = [result EXCEPT ![s].status = "ok"]
    /\ persisted' = IF target.exists THEN persisted ELSE Some(data[s])
    /\ UNCHANGED <<live, data, pre, attempted, clock, nextId, faults, litter>>

\* os.replace(temp_path, self.file_path), then _save and the caller return
SaveReplace(s) ==
    /\ pc[s] = "replace"
    /\ target' = tmp[s]
    /\ tmp' = [tmp EXCEPT ![s] = NoFile]
    /\ pc' = [pc EXCEPT ![s] = "returned"]
    /\ result' = [result EXCEPT ![s].status = "ok"]
    /\ persisted' = Some(data[s])
    /\ UNCHANGED <<live, data, pre, attempted, clock, nextId, faults, litter>>

\* os.replace raises
SaveReplaceFail(s) ==
    /\ pc[s] = "replace"
    /\ Fault
    /\ pc' = [pc EXCEPT ![s] = "unlink"]
    /\ SaveCatch(s, OSErrorIn("os.replace"))
    /\ UNCHANGED <<live, data, target, tmp, pre, attempted, clock, nextId, litter, persisted>>

\* except Exception: os.unlink(temp_path); raise
SaveUnlink(s) ==
    /\ pc[s] = "unlink"
    /\ tmp' = [tmp EXCEPT ![s] = NoFile]
    /\ SaveRaise(s, result[s].msg)
    /\ UNCHANGED <<live, data, target, pre, attempted, clock, nextId, faults, litter, persisted>>

\* SaveUnlinkFail without "except OSError: pass": the error of os.unlink
\* leaves _save in place of the one that was caught
SaveUnlinkFail_Replaces(s) ==
    /\ pc[s] = "unlink"
    /\ SaveRaise(s, OSErrorIn("os.unlink"))
    /\ UNCHANGED <<live, data, target, tmp, pre, attempted, clock, nextId, faults, litter, persisted>>

\* os.unlink raises OSError: pass; raise.  The file stays in the directory.
SaveUnlinkFail(s) ==
    /\ pc[s] = "unlink"
    /\ SaveRaise(s, result[s].msg)
    /\ UNCHANGED <<live, data, target, tmp, pre, attempted, clock, nextId, faults, litter, persisted>>

----------------------------------------------------------------------------
(* The mutating operations *)

Idle(s) == s \in live /\ pc[s] = "idle"

\* datetime.utcnow(): the clock has not gone back since the last reading
Now(t) == t \in {clock, clock + 1} /\ t <= MaxTick /\ clock' = t

\* the note create_note builds
NewNote(in, id, now) ==
    [id |-> id,
     title |-> in.title,
     content |-> in.content,
     tags |-> [category |-> in.category,
               type |-> in.type_tag,
               priority |-> in.priority,
               topics |-> IF in.topics.some /\ in.topics.v # <<>> THEN in.topics.v ELSE <<>>],
     created |-> now,
     updated |-> now]

\* create_note that appends the note before it validates the tags
create_note_AppendFirst(s, in) ==
    LET check == validate_tags(data[s].tag_schema, Some(in.category), Some(in.type_tag),
                               Some(in.priority), in.topics)
        note == NewNote(in, Uuid(nextId + 1), IsoFormat(clock))
    IN  /\ Idle(s)
        /\ nextId < MaxIds
        /\ IF ~check.ok
           THEN /\ data' = [data EXCEPT ![s].notes = Append1(@, note)]
                /\ result' = [result EXCEPT ![s] = Raised("create_note", in, "ValueError", check.msg)]
                /\ pc' = [pc EXCEPT ![s] = "returned"]
                /\ pre' = [pre EXCEPT ![s] = Snapshot(s)]
                /\ UNCHANGED <<live, target, tmp, attempted, clock, faults, litter, persisted>>
           ELSE /\ MutateAndSave(s, "create_note", in,
                       [data[s] EXCEPT !.notes = Append1(@, note)], note)
                /\ UNCHANGED clock
        /\ nextId' = nextId + 1

\* create_note that numbers the notes: the id is the number of notes plus one
create_note_NumberIds(s, in) ==
    LET check == validate_tags(data[s].tag_schema, Some(in.category), Some(in.type_tag),
                               Some(in.priority), in.topics)
    IN  /\ Idle(s)
        /\ IF ~check.ok
           THEN Fail(s, "create_note", in, check.msg)
           ELSE /\ nextId < MaxIds
                /\ \E t \in 0..MaxTick :
                      /\ Now(t)
                      /\ LET note == NewNote(in, Uuid(Len(data[s].notes) + 1), IsoFormat(t))
                         IN  MutateAndSave(s, "create_note", in,
                                 [data[s] EXCEPT !.notes = Append1(@, note)], note)
                /\ nextId' = nextId + 1

\* NotesStorage.create_note
create_note(s, in) ==
    LET check == validate_tags(data[s].tag_schema, Some(in.category), Some(in.type_tag),
                               Some(in.priority), in.topics)
    IN  /\ Idle(s)
        /\ IF ~check.ok
           THEN Fail(s, "create_note", in, check.msg)
           ELSE /\ nextId < MaxIds
                /\ \E t \in 0..MaxTick :
                      /\ Now(t)
                      /\ LET note == NewNote(in, Uuid(nextId + 1), IsoFormat(t))
                         IN  MutateAndSave(s, "create_note", in,
                                 [data[s] EXCEPT !.notes = Append1(@, note)], note)
                /\ nextId' = nextId + 1

\* UpdatedNote with "if topics:" for "if topics is not None:"
UpdatedNote_TopicsIfAny(note, in, now) ==
    [note EXCEPT
        !.title = IF in.title.some THEN in.title.v ELSE @,
        !.content = IF in.content.some THEN in.content.v ELSE @,
        !.tags.category = IF in.category.some THEN in.category.v ELSE @,
        !.tags.type = IF in.type_tag.some THEN in.type_tag.v ELSE @,
        !.tags.priority = IF in.priority.some THEN in.priority.v ELSE @,
        !.tags.topics = IF in.topics.some /\ in.topics.v # <<>> THEN in.topics.v ELSE @,
        !.updated = now]

\* UpdatedNote that refreshes created as well as updated
UpdatedNote_BothStamps(note, in, now) ==
    [note EXCEPT
        !.title = IF in.title.some THEN in.title.v ELSE @,
        !.content = IF in.content.some THEN in.content.v ELSE @,
        !.tags.category = IF in.category.some THEN in.category.v ELSE @,
        !.tags.type = IF in.type_tag.some THEN in.type_tag.v ELSE @,
        !.tags.priority = IF in.priority.some THEN in.priority.v ELSE @,
        !.tags.topics = IF in.topics.some THEN in.topics.v ELSE @,
        !.created = now,
        !.updated = now]

\* the fields update_note assigns
UpdatedNote(note, in, now) ==
    [note EXCEPT
        !.title = IF in.title.some THEN in.title.v ELSE @,
        !.content = IF in.content.some THEN in.content.v ELSE @,
        !.tags.category = IF in.category.some THEN in.category.v ELSE @,
        !.tags.type = IF in.type_tag.some THEN in.type_tag.v ELSE @,
        !.tags.priority = IF in.priority.some THEN in.priority.v ELSE @,
        !.tags.topics = IF in.topics.some THEN in.topics.v ELSE @,
        !.updated = now]

\* update_note that assigns the fields before it validates the tags
update_note_AssignFirst(s, note_id, in) ==
    LET i == FindIndex(data[s].notes, note_id, 1)
        args == [note_id |-> note_id, fields |-> in]
        check == validate_tags(data[s].tag_schema, in.category, in.type_tag,
                               in.priority, in.topics)
    IN  /\ Idle(s)
        /\ IF i = 0
           THEN Fail(s, "update_note", args, NotFoundMsg(note_id))
           ELSE /\ \E t \in 0..MaxTick :
                      /\ Now(t)
                      /\ LET note == UpdatedNote(data[s].notes[i], in, IsoFormat(t))
                         IN  IF ~check.ok
                             THEN /\ data' = [data EXCEPT ![s].notes[i] = note]
                                  /\ result' = [result EXCEPT ![s] =
                                        Raised("update_note", args, "ValueError", check.msg)]
                                  /\ pc' = [pc EXCEPT ![s] = "returned"]
                                  /\ pre' = [pre EXCEPT ![s] = Snapshot(s)]
                                  /\ UNCHANGED <<live, target, tmp, attempted, faults, litter,
                                                 persisted>>
                             ELSE MutateAndSave(s, "update_note", args,
                                      [data[s] EXCEPT !.notes[i] = note], note)
                /\ UNCHANGED nextId

\* NotesStorage.update_note
update_note(s, note_id, in) ==
    LET i == FindIndex(data[s].notes, note_id, 1)
        args == [note_id |-> note_id, fields |-> in]
        check == validate_tags(data[s].tag_schema, in.category, in.type_tag,
                               in.priority, in.topics)
    IN  /\ Idle(s)
        /\ IF i = 0
           THEN Fail(s, "update_note", args, NotFoundMsg(note_id))
           ELSE IF ~check.ok
           THEN Fail(s, "update_note", args, check.msg)
           ELSE /\ \E t \in 0..MaxTick :
                      /\ Now(t)
                      /\ LET note == UpdatedNote(data[s].notes[i], in, IsoFormat(t))
                         IN  MutateAndSave(s, "update_note", args,
                                 [data[s] EXCEPT !.notes[i] = note], note)
                /\ UNCHANGED nextId

\* delete_note that returns True when no note has the id
delete_note_Lenient(s, note_id) ==
    LET i == FindIndex(data[s].notes, note_id, 1)
        args == [note_id |-> note_id]
    IN  /\ Idle(s)
        /\ IF i = 0
           THEN Read(s, "delete_note", args, TRUE)
           ELSE /\ MutateAndSave(s, "delete_note", args,
                       [data[s] EXCEPT !.notes = Pop(@, i)], TRUE)
                /\ UNCHANGED <<clock, nextId>>

\* NotesStorage.delete_note
delete_note(s, note_id) ==
    LET i == FindIndex(data[s].notes, note_id, 1)
        args == [note_id |-> note_id]
    IN  /\ Idle(s)
        /\ IF i = 0
           THEN Fail(s, "delete_note", args, NotFoundMsg(note_id))
           ELSE /\ MutateAndSave(s, "delete_note", args,
                       [data[s] EXCEPT !.notes = Pop(@, i)], TRUE)
                /\ UNCHANGED <<clock, nextId>>

RECURSIVE AddTags(_, _, _)

\* AddTags that puts a new tag in front of the dimension's tags
RECURSIVE AddTags_InFront(_, _, _)
AddTags_InFront(list, tags, i) ==
    IF i > Len(tags) THEN list
    ELSE AddTags_InFront(IF In(tags[i], list) THEN list ELSE <<tags[i]>> \o list, tags, i + 1)

\* AddTags without the test "tag not in schema[dimension]"
AddTags_NoTest(list, tags, i) == list \o SubSeq(tags, i, Len(tags))

\* for tag in tags: if tag not in schema[dimension]: schema[dimension].append(tag)
AddTags(list, tags, i) ==
    IF i > Len(tags) THEN list
    ELSE AddTags(IF In(tags[i], list) THEN list ELSE Append1(list, tags[i]), tags, i + 1)

\* add_tags_to_schema that skips an unknown dimension instead of raising
add_tags_to_schema_SkipUnknown(s, in) ==
    /\ Idle(s)
    /\ LET schema == IF In(in.dimension, valid_dimensions)
                     THEN [data[s].tag_schema EXCEPT ![in.dimension] = AddTags(@, in.tags, 1)]
                     ELSE data[s].tag_schema
       IN  MutateAndSave(s, "add_tags_to_schema", in,
               [data[s] EXCEPT !.tag_schema = schema], schema)
    /\ UNCHANGED <<clock, nextId>>

\* NotesStorage.add_tags_to_schema
add_tags_to_schema(s, in) ==
    /\ Idle(s)
    /\ IF ~In(in.dimension, valid_dimensions)
       THEN Fail(s, "add_tags_to_schema", in,
                 InvalidMsg("Invalid dimension", in.dimension, valid_dimensions))
       ELSE /\ LET schema == [data[s].tag_schema EXCEPT
                                 ![in.dimension] = AddTags(@, in.tags, 1)]
               IN  MutateAndSave(s, "add_tags_to_schema", in,
                       [data[s] EXCEPT !.tag_schema = schema], schema)
            /\ UNCHANGED <<clock, nextId>>

\* NotesStorage.__init__: the server process starts again and loads the file
Construct(s) ==
    /\ Idle(s)
    /\ LET loaded == Load(target)
       IN  /\ data' = [data EXCEPT ![s] = IF loaded.ok THEN loaded.v ELSE @]
           /\ result' = [result EXCEPT ![s] =
                            IF loaded.ok THEN Returned("__init__", <<>>, <<>>)
                            ELSE Raised("__init__", <<>>, "JSONDecodeError", NoMsg)]
    /\ pc' = [pc EXCEPT ![s] = "returned"]
    /\ pre' = [pre EXCEPT ![s] = Snapshot(s)]
    /\ UNCHANGED <<live, target, tmp, attempted, clock, nextId, faults, litter, persisted>>

----------------------------------------------------------------------------
(* The read operations *)

\* a < b for Python strings given as character codes
RECURSIVE StrLess(_, _)
StrLess(a, b) ==
    IF Len(b) = 0 THEN FALSE
    ELSE IF Len(a) = 0 THEN TRUE
    ELSE IF a[1] # b[1] THEN a[1] < b[1]
    ELSE StrLess(Tail(a), Tail(b))

\* str.lower() on character codes
Lower(a) == [i \in 1..Len(a) |-> IF a[i] >= 65 /\ a[i] <= 90 THEN a[i] + 32 ELSE a[i]]

\* a in b for strings
Contains(a, b) ==
    \E i \in 0..(Len(b) - Len(a)) : SubSeq(b, i + 1, i + Len(a)) = a

\* Matches with ">=" for ">" in the two "before" filters: the bound is excluded
Matches_BeforeExclusive(note, f) ==
    /\ ~(f.category.some /\ note.tags.category # f.category.v)
    /\ ~(f.type_tag.some /\ note.tags.type # f.type_tag.v)
    /\ ~(f.priority.some /\ note.tags.priority # f.priority.v)
    /\ f.topics.some =>
          \E i \in 1..Len(f.topics.v) : In(f.topics.v[i], note.tags.topics)
    /\ f.title_contains.some => Contains(Lower(f.title_contains.v), Lower(note.title))
    /\ ~(f.created_after.some /\ StrLess(note.created, f.created_after.v))
    /\ ~(f.created_before.some /\ ~StrLess(note.created, f.created_before.v))
    /\ ~(f.updated_after.some /\ StrLess(note.updated, f.updated_after.v))
    /\ ~(f.updated_before.some /\ ~StrLess(note.updated, f.updated_before.v))

\* the filters of find_notes, one note
Matches(note, f) ==
    /\ ~(f.category.some /\ note.tags.category # f.category.v)
    /\ ~(f.type_tag.some /\ note.tags.type # f.type_tag.v)
    /\ ~(f.priority.some /\ note.tags.priority # f.priority.v)
    /\ f.topics.some =>
          \E i \in 1..Len(f.topics.v) : In(f.topics.v[i], note.tags.topics)
    /\ f.title_contains.some => Contains(Lower(f.title_contains.v), Lower(note.title))
    /\ ~(f.created_after.some /\ StrLess(note.created, f.created_after.v))
    /\ ~(f.created_before.some /\ StrLess(f.created_before.v, note.created))
    /\ ~(f.updated_after.some /\ StrLess(note.updated, f.updated_after.v))
    /\ ~(f.updated_before.some /\ StrLess(f.updated_before.v, note.updated))

\* the loop of find_notes from note i on
RECURSIVE FindFrom(_, _, _)
FindFrom(notes, f, i) ==
    IF i > Len(notes) THEN <<>>
    ELSE (IF Matches(notes[i], f) THEN <<notes[i]>> ELSE <<>>) \o FindFrom(notes, f, i + 1)

\* counts[k] = counts.get(k, 0) + 1
Bump(counts, k) ==
    IF k \in DOMAIN counts THEN [counts EXCEPT ![k] = @ + 1] ELSE (k :> 1) @@ counts

RECURSIVE BumpAll(_, _, _)
BumpAll(counts, topics, i) ==
    IF i > Len(topics) THEN counts
    ELSE BumpAll(Bump(counts, topics[i]), topics, i + 1)

\* the loop of list_tags from note i on
RECURSIVE CountFrom(_, _, _)
CountFrom(notes, counts, i) ==
    IF i > Len(notes) THEN counts
    ELSE CountFrom(notes,
            [category |-> Bump(counts.category, notes[i].tags.category),
             type |-> Bump(counts.type, notes[i].tags.type),
             priority |-> Bump(counts.priority, notes[i].tags.priority),
             topics |-> BumpAll(counts.topics, notes[i].tags.topics, 1)],
            i + 1)

NoFilter ==
    [category |-> None, type_tag |-> None, priority |-> None, topics |-> None,
     title_contains |-> None, created_after |-> None, created_before |-> None,
     updated_after |-> None, updated_before |-> None]

FindInputs ==
    { NoFilter,
      [NoFilter EXCEPT !.topics = Some(<<"mcp", "ai">>)],
      [NoFilter EXCEPT !.category = Some("personal"), !.title_contains = Some(<<66>>)],
      [NoFilter EXCEPT !.category = Some("bogus")],
      [NoFilter EXCEPT !.topics = Some(<<>>)],
      [NoFilter EXCEPT !.created_after = Some(IsoFormat(1)), !.type_tag = Some("todo")],
      [NoFilter EXCEPT !.created_before = Some(IsoFormat(0)), !.updated_after = Some(IsoFormat(0)),
                       !.priority = Some("active")],
      [NoFilter EXCEPT !.updated_before = Some(IsoFormat(1))] }

\* NotesStorage.get_schema
get_schema(s) ==
    /\ Idle(s)
    /\ Read(s, "get_schema", <<>>, data[s].tag_schema)

\* NotesStorage.validate_tags, called from outside
validate_tags_call(s, in) ==
    /\ Idle(s)
    /\ LET check == validate_tags(data[s].tag_schema, in.category, in.type_tag,
                                  in.priority, in.topics)
       IN  Read(s, "validate_tags", in, <<check.ok, check.msg>>)

\* NotesStorage.read_note
read_note(s, note_id) ==
    LET i == FindIndex(data[s].notes, note_id, 1)
        args == [note_id |-> note_id]
    IN  /\ Idle(s)
        /\ IF i = 0
           THEN Fail(s, "read_note", args, NotFoundMsg(note_id))
           ELSE Read(s, "read_note", args, data[s].notes[i])

\* NotesStorage.find_notes
find_notes(s, f) ==
    /\ Idle(s)
    /\ Read(s, "find_notes", f, FindFrom(data[s].notes, f, 1))

\* NotesStorage.list_tags
list_tags(s) ==
    /\ Idle(s)
    /\ Read(s, "list_tags", <<>>,
            CountFrom(data[s].notes,
                      [category |-> <<>>, type |-> <<>>, priority |-> <<>>, topics |-> <<>>],
                      1))

----------------------------------------------------------------------------
(* The specification *)

Save(s) ==
    \/ SaveMkstemp(s)
    \/ SaveMkstempFail(s)
    \/ SaveWrite(s)
    \/ SaveWriteFail(s)
    \/ SaveReplace(s)
    \/ SaveReplaceFail(s)
    \/ SaveUnlink(s)
    \/ SaveUnlinkFail(s)

Next ==
    \E s \in Stores :
        \/ \E in \in CreateInputs : create_note(s, in)
        \/ \E id \in NoteIds, in \in UpdateInputs : update_note(s, id, in)
        \/ \E id \in NoteIds : delete_note(s, id)
        \/ \E in \in AddTagsInputs : add_tags_to_schema(s, in)
        \/ Construct(s)
        \/ get_schema(s)
        \/ \E in \in ValidateInputs : validate_tags_call(s, in)
        \/ \E id \in NoteIds : read_note(s, id)
        \/ \E f \in FindInputs : find_notes(s, f)
        \/ list_tags(s)
        \/ Save(s)
        \/ Return(s)

Spec == Init /\ [][Next]_vars

----------------------------------------------------------------------------
(* A caller that writes to the objects it got from the store or gave to it *)

\* no caller has written to the document: the values below are ones the
\* operations cannot produce
Unwritten(doc) ==
    /\ doc.tag_schema.topics # <<>>
    /\ \A i \in 1..Len(doc.notes) :
          /\ doc.notes[i].tags.category # "bogus"
          /\ ~In("zzz", doc.notes[i].tags.topics)

\* the call has returned its value and the caller has not written yet
Holds(s, ops) ==
    /\ s \in live
    /\ pc[s] = "returned"
    /\ result[s].status = "ok"
    /\ result[s].op \in ops
    /\ Unwritten(data[s])

\* the store as the caller's write leaves it: the document is doc, the value
\* the caller holds is value
Written(s, doc, value) ==
    /\ data' = [data EXCEPT ![s] = doc]
    /\ result' = [result EXCEPT ![s].status = "written", ![s].value = value]
    /\ UNCHANGED <<live, target, tmp, pc, pre, attempted, clock, nextId, faults, litter,
                   persisted>>

\* schema = storage.get_schema(); schema["topics"].clear()
\* get_schema returns self.data["tag_schema"], the dict the store holds
write_schema(s) ==
    /\ Holds(s, {"get_schema"})
    /\ Written(s, [data[s] EXCEPT !.tag_schema.topics = <<>>],
               [result[s].value EXCEPT !.topics = <<>>])

\* note["tags"]["category"] = "bogus" on the note that create_note,
\* update_note or read_note returned: it is the dict in self.data["notes"]
write_note(s) ==
    /\ Holds(s, {"create_note", "update_note", "read_note"})
    /\ LET i == FindIndex(data[s].notes, result[s].value.id, 1)
       IN  Written(s, [data[s] EXCEPT !.notes[i].tags.category = "bogus"],
                   [result[s].value EXCEPT !.tags.category = "bogus"])

\* notes = storage.find_notes(...); notes[k]["tags"]["category"] = "bogus"
\* the elements of the list are the dicts in self.data["notes"]
write_found_note(s) ==
    /\ Holds(s, {"find_notes"})
    /\ \E k \in 1..Len(result[s].value) :
          LET i == FindIndex(data[s].notes, result[s].value[k].id, 1)
          IN  Written(s, [data[s] EXCEPT !.notes[i].tags.category = "bogus"],
                      [result[s].value EXCEPT ![k].tags.category = "bogus"])

\* notes = storage.find_notes(...); notes.clear()
\* the list is the one find_notes made (results = [])
write_found_list(s) ==
    /\ Holds(s, {"find_notes"})
    /\ result[s].value # <<>>
    /\ Written(s, data[s], <<>>)

\* topics.append("zzz") on the list given to create_note or update_note:
\* "topics or []" is the caller's list unless that is empty, and update_note
\* assigns the caller's list
write_topics(s) ==
    /\ Holds(s, {"create_note", "update_note"})
    /\ LET i == FindIndex(data[s].notes, result[s].value.id, 1)
           given == IF result[s].op = "create_note" THEN result[s].args.topics
                    ELSE result[s].args.fields.topics
           shared == given.some /\ (result[s].op = "update_note" \/ given.v # <<>>)
       IN  /\ given.some
           /\ IF shared
              THEN Written(s, [data[s] EXCEPT !.notes[i].tags.topics = Append1(@, "zzz")],
                           [result[s].value EXCEPT !.tags.topics = Append1(@, "zzz")])
              ELSE Written(s, data[s], result[s].value)

caller_writes(s) ==
    \/ write_schema(s)
    \/ write_note(s)
    \/ write_found_note(s)
    \/ write_found_list(s)
    \/ write_topics(s)

\* the operations that return or take what the store holds, and a caller
\* that writes to it
NextWithCaller ==
    \E s \in Stores :
        \/ \E in \in CreateInputs : create_note(s, in)
        \/ \E id \in NoteIds, in \in UpdateInputs : update_note(s, id, in)
        \/ get_schema(s)
        \/ \E id \in NoteIds : read_note(s, id)
        \/ \E f \in FindInputs : find_notes(s, f)
        \/ Save(s)
        \/ Return(s)
        \/ caller_writes(s)

SpecWithCaller == Init /\ [][NextWithCaller]_vars

----------------------------------------------------------------------------
(* Two server processes on one backing file *)

\* both have loaded the file, which does not exist yet
InitTwoStores == InitWith(Stores)

\* process A creates notes, process B adds tags to the schema; each saves
\* and may start again; the steps of the two interleave
NextTwoStores ==
    \/ \E in \in CreateInputs : create_note("A", in)
    \/ \E in \in AddTagsInputs : add_tags_to_schema("B", in)
    \/ \E s \in Stores : Construct(s) \/ Save(s) \/ Return(s)

SpecTwoStores == InitTwoStores /\ [][NextTwoStores]_vars

----------------------------------------------------------------------------
(* Vocabulary of the properties *)

Range(list) == {list[i] : i \in 1..Len(list)}

MutatingOps == {"create_note", "update_note", "delete_note", "add_tags_to_schema"}
ReadOps == {"get_schema", "validate_tags", "read_note", "find_notes", "list_tags"}

\* s has finished the call op and its outcome is with the caller
Done(s, op) == s \in live /\ pc[s] = "returned" /\ result[s].op = op

\* what Done(s, op) left as it was when the call started
Untouched(s) ==
    /\ data[s] = pre[s].data
    /\ target = pre[s].disk
    /\ ~attempted[s]
    /\ ~tmp[s].exists

\* every tag of the note is in its dimension of the schema
NoteInSchema(note, schema) ==
    /\ note.tags.category \in Range(schema.category)
    /\ note.tags.type \in Range(schema.type)
    /\ note.tags.priority \in Range(schema.priority)
    /\ Range(note.tags.topics) \subseteq Range(schema.topics)

\* what a process that opens and parses the backing file now gets
ReaderSees == IF target.exists THEN JsonLoad(target.content) ELSE [ok |-> TRUE, v |-> <<>>]

----------------------------------------------------------------------------
(* C1: in every state reached from the seed document by create_note,       *)
(* update_note, delete_note and add_tags_to_schema calls, whether they     *)
(* succeed or fail, every note's category, type and priority and each of   *)
(* its topics is in the schema's dimension of that name.                   *)
C1_NotesInSchema ==
    \A s \in live : \A i \in 1..Len(data[s].notes) :
        NoteInSchema(data[s].notes[i], data[s].tag_schema)

\* a note carries a tag that was added to the schema, after a call failed validation
C1_Witness ==
    \E s \in live :
        /\ \E i \in 1..Len(data[s].notes) : data[s].notes[i].tags.priority = "urgent"
        /\ Done(s, "create_note") /\ result[s].status = "error"
        /\ Len(data[s].notes) = MaxIds

(* C2: when the save fails inside a mutating operation, the error reaches  *)
(* the caller and the in-memory document and the backing file are what     *)
(* they were before the operation was called.                              *)
C2_FailedSaveRestoresAll ==
    \A s \in live :
        (pc[s] = "returned" /\ result[s].op \in MutatingOps /\ result[s].err = "OSError")
            => /\ result[s].status = "error"
               /\ data[s] = pre[s].data
               /\ target = pre[s].disk

(* C3: a process that reads the backing file at any step of a save,        *)
(* a failing one included, finds no file or one complete document, the     *)
(* one of the save that last replaced the file; a save that failed has     *)
(* left the content of the backing file as it was.                         *)
C3_ReaderSeesWholeDocument ==
    /\ IF target.exists
       THEN persisted.some /\ ReaderSees = [ok |-> TRUE, v |-> persisted.v]
       ELSE ~persisted.some
    /\ \A s \in live :
          (pc[s] = "unlink" \/ (pc[s] = "returned" /\ result[s].err = "OSError"))
              => target = pre[s].disk

\* a save failed part-way: its temporary file holds half a document while
\* the backing file holds an earlier one
C3_Witness ==
    \E s \in live :
        /\ pc[s] = "unlink"
        /\ tmp[s].exists /\ tmp[s].content # <<>> /\ ~JsonLoad(tmp[s].content).ok
        /\ target.exists /\ Len(persisted.v.notes) > 0
        /\ persisted.v # data[s]

(* C4: when a mutating operation returns success, the backing file holds   *)
(* the in-memory document: the save was entered and has replaced the file. *)
C4_SuccessMeansPersisted ==
    \A s \in live :
        (pc[s] = "returned" /\ result[s].op \in MutatingOps /\ result[s].status = "ok")
            => /\ attempted[s]
               /\ target.exists
               /\ ReaderSees = [ok |-> TRUE, v |-> data[s]]

\* an update has returned success after an earlier call's save had failed
C4_Witness ==
    \E s \in live :
        /\ Done(s, "update_note") /\ result[s].status = "ok"
        /\ faults > 0
        /\ target # pre[s].disk

(* C5: every document reached, written by json.dump and read back by a     *)
(* fresh store's _load, gives a document equal to it: same schema          *)
(* sequences, same notes in the same order with the same fields.           *)
C5_RoundTrip ==
    \A s \in live :
        Load(File(JsonDump(data[s]))) = [ok |-> TRUE, v |-> data[s]]

\* two notes, one with repeated topics and one without topics, timestamps
\* with and without a fraction
C5_Witness ==
    \E s \in live :
        /\ Len(data[s].notes) = 2
        /\ \E i, j \in 1..2 :
              /\ data[s].notes[i].tags.topics = <<>>
              /\ Len(data[s].notes[j].tags.topics) = 3
              /\ data[s].notes[i].created # data[s].notes[i].updated
        /\ Len(data[s].tag_schema.priority) > Len(SeedDocument.tag_schema.priority)
        /\ pc[s] = "replace"

\* some provided tag is not in its dimension of the schema
SomeTagInvalid(schema, category, type_tag, priority, topics) ==
    \/ category.some /\ category.v \notin Range(schema.category)
    \/ type_tag.some /\ type_tag.v \notin Range(schema.type)
    \/ priority.some /\ priority.v \notin Range(schema.priority)
    \/ topics.some /\ ~(Range(topics.v) \subseteq Range(schema.topics))

HasNote(doc, note_id) == \E i \in 1..Len(doc.notes) : doc.notes[i].id = note_id

InvalidTagTexts == {"Invalid category", "Invalid type", "Invalid priority", "Invalid topic"}

(* C6: get_schema, validate_tags, read_note, find_notes and list_tags,     *)
(* succeeding or failing, leave the in-memory document and the backing     *)
(* file as they were and create no file; loading when there is no backing  *)
(* file creates none.                                                      *)
C6_ReadsWriteNothing ==
    \A s \in live :
        /\ (pc[s] = "returned" /\ result[s].op \in ReadOps) => Untouched(s)
        /\ (Done(s, "__init__") /\ ~pre[s].disk.exists)
              => /\ ~target.exists
                 /\ ~tmp[s].exists
                 /\ ~attempted[s]
                 /\ data[s] = SeedDocument

\* read_note has failed on a document with notes that was never saved
C6_Witness ==
    \E s \in live :
        /\ Done(s, "read_note") /\ result[s].status = "error"
        /\ Len(data[s].notes) > 0
        /\ ~target.exists

(* C7: update_note on an existing note with a provided category, type,     *)
(* priority or topic that is not in the schema raises the validation       *)
(* error; the note and the rest of the document are as before, also when   *)
(* other provided fields were valid, and _save is not entered.             *)
C7_InvalidUpdateChangesNothing ==
    \A s \in live :
        (/\ Done(s, "update_note")
         /\ HasNote(pre[s].data, result[s].args.note_id)
         /\ SomeTagInvalid(pre[s].data.tag_schema,
                           result[s].args.fields.category, result[s].args.fields.type_tag,
                           result[s].args.fields.priority, result[s].args.fields.topics))
            => /\ result[s].status = "error"
               /\ result[s].err = "ValueError"
               /\ result[s].msg.text \in InvalidTagTexts
               /\ Untouched(s)

\* an update with a new title, a valid category and an unknown topic was refused
C7_Witness ==
    \E s \in live :
        /\ Done(s, "update_note") /\ result[s].status = "error"
        /\ result[s].msg.text = "Invalid topic"
        /\ result[s].args.fields.title.some
        /\ result[s].args.fields.category.some
        /\ \E i \in 1..Len(data[s].notes) :
              /\ data[s].notes[i].id = result[s].args.note_id
              /\ data[s].notes[i].title # result[s].args.fields.title.v

(* C8: create_note with a category, type, priority or topic that is not    *)
(* in the schema raises the validation error with validate_tags's message; *)
(* no note is added, the schema is as before and _save is not entered.     *)
C8_InvalidCreateAddsNothing ==
    \A s \in live :
        (/\ Done(s, "create_note")
         /\ SomeTagInvalid(pre[s].data.tag_schema,
                           Some(result[s].args.category), Some(result[s].args.type_tag),
                           Some(result[s].args.priority), result[s].args.topics))
            => /\ result[s].status = "error"
               /\ result[s].err = "ValueError"
               /\ result[s].msg = validate_tags(pre[s].data.tag_schema,
                                      Some(result[s].args.category),
                                      Some(result[s].args.type_tag),
                                      Some(result[s].args.priority),
                                      result[s].args.topics).msg
               /\ result[s].msg.text \in InvalidTagTexts
               /\ Len(data[s].notes) = Len(pre[s].data.notes)
               /\ Untouched(s)

\* a create with an unknown topic was refused while the store holds a note
C8_Witness ==
    \E s \in live :
        /\ Done(s, "create_note") /\ result[s].status = "error"
        /\ result[s].msg.text = "Invalid topic"
        /\ Len(data[s].notes) = 1
        /\ nextId < MaxIds

(* C9: delete_note, read_note and update_note with an id no note has raise *)
(* the not-found error; the document and the backing file are as before    *)
(* and _save is not entered.                                               *)
C9_MissingIdNotFound ==
    \A s \in live : \A op \in {"delete_note", "read_note", "update_note"} :
        (Done(s, op) /\ ~HasNote(pre[s].data, result[s].args.note_id))
            => /\ result[s].status = "error"
               /\ result[s].err = "ValueError"
               /\ result[s].msg = NotFoundMsg(result[s].args.note_id)
               /\ Untouched(s)

\* delete_note was called with the id of a note deleted earlier
C9_Witness ==
    \E s \in live :
        /\ Done(s, "delete_note") /\ result[s].status = "error"
        /\ result[s].args.note_id = Uuid(1)
        /\ Len(data[s].notes) > 0

(* C10: add_tags_to_schema with a dimension other than category, type,     *)
(* priority and topics raises the invalid-dimension error; schema and      *)
(* notes are as before and _save is not entered.                           *)
C10_UnknownDimensionRejected ==
    \A s \in live :
        (/\ Done(s, "add_tags_to_schema")
         /\ result[s].args.dimension \notin {"category", "type", "priority", "topics"})
            => /\ result[s].status = "error"
               /\ result[s].err = "ValueError"
               /\ result[s].msg.text = "Invalid dimension"
               /\ result[s].msg.value = result[s].args.dimension
               /\ result[s].msg.valid = <<"category", "type", "priority", "topics">>
               /\ Untouched(s)

\* the dimension "colour" was refused by a store that holds a note
C10_Witness ==
    \E s \in live :
        /\ Done(s, "add_tags_to_schema") /\ result[s].status = "error"
        /\ result[s].args.dimension = "colour"
        /\ Len(data[s].notes) > 0

Dimensions == {"category", "type", "priority", "topics"}

NoDuplicate(list) == \A i, j \in 1..Len(list) : list[i] = list[j] => i = j

IsPrefix(a, b) == Len(a) <= Len(b) /\ SubSeq(b, 1, Len(a)) = a

\* add_tags_to_schema was called with one of the four dimensions
AddedTags(s) ==
    /\ Done(s, "add_tags_to_schema")
    /\ result[s].args.dimension \in Dimensions

(* C11: after add_tags_to_schema the dimension is what it was, followed by  *)
(* the tags of the argument that it did not have, each once, also when a   *)
(* tag is already present or occurs twice in the argument; the same call   *)
(* applied to the result changes nothing; and no dimension of any schema   *)
(* reached from the seed schema has a value twice.                         *)
C11_AddTagsIdempotent ==
    \A s \in live :
        /\ \A d \in Dimensions : NoDuplicate(data[s].tag_schema[d])
        /\ AddedTags(s) =>
              LET d == result[s].args.dimension
                  tags == result[s].args.tags
                  before == pre[s].data.tag_schema[d]
                  after == data[s].tag_schema[d]
              IN  /\ IsPrefix(before, after)
                  /\ Len(after) = Len(before) + Cardinality(Range(tags) \ Range(before))
                  /\ Range(after) = Range(before) \cup Range(tags)
                  /\ AddTags(after, tags, 1) = after
                  /\ [data[s].tag_schema EXCEPT ![d] = AddTags(@, tags, 1)] = data[s].tag_schema

\* the call that added "urgent", given twice in its argument, was made again
\* and has returned: the dimension has "urgent" once and the length it had
C11_Witness ==
    \E s \in live :
        /\ AddedTags(s) /\ result[s].status = "ok"
        /\ result[s].args.tags = <<"urgent", "active", "urgent">>
        /\ In("urgent", pre[s].data.tag_schema.priority)
        /\ In("active", SeedDocument.tag_schema.priority)
        /\ data[s].tag_schema = pre[s].data.tag_schema
        /\ Len(data[s].tag_schema.priority) = Len(SeedDocument.tag_schema.priority) + 1

\* the step of store s is a call of op
Calls(s, op) == pc[s] = "idle" /\ pc'[s] # "idle" /\ result'[s].op = op

(* C12: in the life of a store object (from its construction to the next   *)
(* start of the process) every step leaves the schema with exactly the     *)
(* dimensions category, type, priority and topics and each dimension's     *)
(* sequence a prefix of what it is after the step, and a step that changes *)
(* the schema is a call of add_tags_to_schema; the schema in the backing   *)
(* file grows the same way with every save.                                *)
C12_SchemaOnlyGrows ==
    [][\A s \in live :
          /\ DOMAIN data'[s].tag_schema = Dimensions
          /\ ~Calls(s, "__init__") =>
                /\ \A d \in Dimensions :
                      IsPrefix(data[s].tag_schema[d], data'[s].tag_schema[d])
                /\ data'[s].tag_schema # data[s].tag_schema
                      => Calls(s, "add_tags_to_schema")
          /\ (persisted.some /\ persisted'.some) =>
                \A d \in Dimensions :
                    IsPrefix(persisted.v.tag_schema[d], persisted'.v.tag_schema[d])
    ]_vars

\* a tag was added to the schema of a store with a note, and saved, and
\* the seed tags are where they were
C12_Witness ==
    \E s \in live :
        /\ AddedTags(s) /\ result[s].status = "ok"
        /\ Len(pre[s].data.notes) > 0
        /\ pre[s].data.tag_schema.priority = SeedDocument.tag_schema.priority
        /\ data[s].tag_schema.priority = Append1(SeedDocument.tag_schema.priority, "urgent")
        /\ persisted = Some(data[s])

\* s has finished the call op and returned its value
Succeeded(s, op) == Done(s, op) /\ result[s].status = "ok"

(* C13: the note create_note returns has created = updated, and after a    *)
(* successful update_note the note's updated is lexically greater than it  *)
(* was before the call.                                                    *)
C13_UpdatedStrictlyIncreases ==
    \A s \in live :
        /\ Succeeded(s, "create_note") =>
              /\ result[s].value.created = result[s].value.updated
              /\ data[s].notes[Len(data[s].notes)] = result[s].value
        /\ Succeeded(s, "update_note") =>
              \A i \in 1..Len(pre[s].data.notes) :
                  pre[s].data.notes[i].id = result[s].args.note_id
                      => StrLess(pre[s].data.notes[i].updated, data[s].notes[i].updated)

\* the ids of the notes of a document
Ids(doc) == {doc.notes[i].id : i \in 1..Len(doc.notes)}

\* the values uuid.uuid4() has returned up to its n-th call
Issued(n) == {Uuid(k) : k \in 1..n}

\* create_note of s has appended its note
Created(s) == s \in live /\ pc[s] # "idle" /\ result[s].op = "create_note" /\ attempted[s]

(* C14: no two notes of a document, in memory or in the backing file, have *)
(* the same id, and the id create_note gives its note is one no note has   *)
(* had before, the deleted notes included.                                 *)
C14_IdsUniqueNeverReused ==
    /\ \A s \in live :
          /\ \A i, j \in 1..Len(data[s].notes) :
                data[s].notes[i].id = data[s].notes[j].id => i = j
          /\ Ids(data[s]) \subseteq Issued(nextId)
          /\ Created(s) =>
                LET id == data[s].notes[Len(data[s].notes)].id
                IN  /\ id \notin Issued(nextId - 1)
                    /\ id \notin Ids(pre[s].data)
                    /\ pre[s].disk.exists => id \notin Ids(Load(pre[s].disk).v)
    /\ persisted.some =>
          /\ Cardinality(Ids(persisted.v)) = Len(persisted.v.notes)
          /\ Ids(persisted.v) \subseteq Issued(nextId)

\* a note was created and saved after the only note before it was deleted
C14_Witness ==
    \E s \in live :
        /\ Succeeded(s, "create_note")
        /\ pre[s].data.notes = <<>>
        /\ pre[s].disk.exists
        /\ nextId = 2
        /\ Ids(data[s]) = {Uuid(2)}

\* id and created of the notes of a document, in document order
Births(doc) == [i \in 1..Len(doc.notes) |-> <<doc.notes[i].id, doc.notes[i].created>>]

(* C15: a step of a store leaves id and created of every note as they      *)
(* were: update_note, add_tags_to_schema, the reads and the steps of the   *)
(* save leave the sequence of (id, created) as it was, create_note adds    *)
(* one at the end, delete_note takes one out; and after any step, a load   *)
(* included, a note that has an id of a note before has its created.       *)
C15_IdAndCreatedFixed ==
    [][\A s \in live :
          /\ \A i \in 1..Len(data[s].notes), j \in 1..Len(data'[s].notes) :
                data[s].notes[i].id = data'[s].notes[j].id
                    => data[s].notes[i].created = data'[s].notes[j].created
          /\ IF Calls(s, "create_note")
             THEN IsPrefix(Births(data[s]), Births(data'[s]))
             ELSE IF Calls(s, "delete_note")
             THEN \/ Births(data'[s]) = Births(data[s])
                  \/ \E k \in 1..Len(data[s].notes) :
                        Births(data'[s]) = Pop(Births(data[s]), k)
             ELSE IF Calls(s, "__init__")
             THEN TRUE
             ELSE Births(data'[s]) = Births(data[s])
    ]_vars

\* the first of two notes was given another category and no topics, at a
\* later reading of the clock than its creation
C15_Witness ==
    \E s \in live :
        /\ Succeeded(s, "update_note")
        /\ Len(data[s].notes) = 2
        /\ result[s].args.note_id = data[s].notes[1].id
        /\ result[s].args.fields.category.some /\ result[s].args.fields.topics.some
        /\ data[s].notes[1].updated # data[s].notes[1].created
        /\ data[s].notes[1] # pre[s].data.notes[1]

\* the value of a field after an update that provided new or omitted the field
Overwritten(new, old) == IF new.some THEN new.v ELSE old

(* C16: after a successful update_note each of title, content, category,   *)
(* type, priority and topics of the note is the value provided, or the     *)
(* value it had when the field was omitted; provided topics replace the    *)
(* note's topics, so topics = [] leaves the note without topics and        *)
(* omitted topics leave them as they were; the note is what is returned.   *)
C16_PartialUpdate ==
    \A s \in live :
        Succeeded(s, "update_note") =>
            /\ Len(data[s].notes) = Len(pre[s].data.notes)
            /\ \A i \in 1..Len(pre[s].data.notes) :
                  pre[s].data.notes[i].id = result[s].args.note_id =>
                      LET old == pre[s].data.notes[i]
                          new == data[s].notes[i]
                          f == result[s].args.fields
                      IN  /\ new.title = Overwritten(f.title, old.title)
                          /\ new.content = Overwritten(f.content, old.content)
                          /\ new.tags.category = Overwritten(f.category, old.tags.category)
                          /\ new.tags.type = Overwritten(f.type_tag, old.tags.type)
                          /\ new.tags.priority = Overwritten(f.priority, old.tags.priority)
                          /\ new.tags.topics = Overwritten(f.topics, old.tags.topics)
                          /\ f.topics = Some(<<>>) => new.tags.topics = <<>>
                          /\ f.topics = None => new.tags.topics = old.tags.topics
                          /\ DOMAIN new = DOMAIN old /\ DOMAIN new.tags = DOMAIN old.tags
                          /\ result[s].value = new

\* a note with three topics was updated with topics = [] and a category,
\* title and content omitted: it has no topics and the title it had
C16_Witness ==
    \E s \in live :
        /\ Succeeded(s, "update_note")
        /\ result[s].args.fields.topics = Some(<<>>)
        /\ result[s].args.fields.title = None
        /\ \E i \in 1..Len(data[s].notes) :
              /\ data[s].notes[i].id = result[s].args.note_id
              /\ Len(pre[s].data.notes[i].tags.topics) = 3
              /\ data[s].notes[i].tags.topics = <<>>
              /\ data[s].notes[i].title = TitleAb
              /\ data[s].notes[i].tags.category # pre[s].data.notes[i].tags.category

\* a note with three topics was updated with topics omitted and a title
\* and a priority provided: it has its three topics
C16_WitnessOmitted ==
    \E s \in live :
        /\ Succeeded(s, "update_note")
        /\ result[s].args.fields.topics = None
        /\ \E i \in 1..Len(data[s].notes) :
              /\ data[s].notes[i].id = result[s].args.note_id
              /\ Len(data[s].notes[i].tags.topics) = 3
              /\ data[s].notes[i].title = TitleB2
              /\ data[s].notes[i].tags.priority = "urgent"

\* a <= b in the lexical order of strings
LexLeq(a, b) ==
    \/ IsPrefix(a, b)
    \/ \E k \in 1..Len(a) :
          /\ k <= Len(b)
          /\ SubSeq(a, 1, k - 1) = SubSeq(b, 1, k - 1)
          /\ a[k] < b[k]

\* the note satisfies every filter that is provided
Satisfies(note, f) ==
    /\ f.category.some => note.tags.category = f.category.v
    /\ f.type_tag.some => note.tags.type = f.type_tag.v
    /\ f.priority.some => note.tags.priority = f.priority.v
    /\ f.topics.some => Range(f.topics.v) \cap Range(note.tags.topics) # {}
    /\ f.title_contains.some => Contains(Lower(f.title_contains.v), Lower(note.title))
    /\ f.created_after.some => LexLeq(f.created_after.v, note.created)
    /\ f.created_before.some => LexLeq(note.created, f.created_before.v)
    /\ f.updated_after.some => LexLeq(f.updated_after.v, note.updated)
    /\ f.updated_before.some => LexLeq(note.updated, f.updated_before.v)

\* the notes that satisfy the filters, in document order
Selected(notes, f) ==
    LET Keep(note) == Satisfies(note, f)
    IN  SelectSeq(notes, Keep)

(* C17: find_notes returns, never raises, and what it returns is the       *)
(* sequence of the notes that satisfy every provided filter, in document   *)
(* order: equality for category, type and priority, at least one of the    *)
(* requested topics, created/updated lexically >= the "after" bound and    *)
(* <= the "before" bound; all notes when no filter is provided; nothing    *)
(* for a category that is not in the schema or an empty topics list.       *)
C17_FindReturnsMatching ==
    \A s \in live :
        Done(s, "find_notes") =>
            LET f == result[s].args
                notes == pre[s].data.notes
            IN  /\ result[s].status = "ok"
                /\ result[s].value = Selected(notes, f)
                /\ f = NoFilter => result[s].value = notes
                /\ (f.category.some /\ ~In(f.category.v, pre[s].data.tag_schema.category))
                      => result[s].value = <<>>
                /\ f.topics = Some(<<>>) => result[s].value = <<>>

\* of two notes with the priority asked for, the filters created_before
\* and updated_after keep the one whose timestamps are the bound and drop
\* the second
C17_Witness ==
    \E s \in live :
        /\ Done(s, "find_notes")
        /\ result[s].args.created_before.some /\ result[s].args.updated_after.some
        /\ Len(data[s].notes) = 2
        /\ result[s].value = <<data[s].notes[1]>>
        /\ data[s].notes[1].created = result[s].args.created_before.v
        /\ data[s].notes[1].updated = result[s].args.updated_after.v
        /\ data[s].notes[2].tags.priority = result[s].args.priority.v

\* the empty topics list finds nothing in a store whose notes have topics
C17_WitnessNoTopics ==
    \E s \in live :
        /\ Done(s, "find_notes")
        /\ result[s].args.topics = Some(<<>>)
        /\ result[s].value = <<>>
        /\ Len(data[s].notes) = 2
        /\ \A i \in 1..2 : data[s].notes[i].tags.topics # <<>>

\* the provided value is not in the dimension
Violates(field, dimension) == field.some /\ field.v \notin Range(dimension)

\* the topics, by index, that are not in the schema
BadTopics(topics, schema) ==
    IF topics.some
    THEN {k \in 1..Len(topics.v) : topics.v[k] \notin Range(schema.topics)}
    ELSE {}

(* C18: validate_tags accepts exactly when every provided category, type,  *)
(* priority and topic is in its dimension of the schema, so omitted fields *)
(* are accepted; when it rejects, the reason is about the first violated   *)
(* of category, type, priority, topics, for topics about the first topic   *)
(* of the list that is not in the schema, and it has the provided value    *)
(* and the tags of that dimension.                                         *)
C18_ValidateFirstFailure ==
    \A s \in live :
        Done(s, "validate_tags") =>
            LET f == result[s].args
                schema == pre[s].data.tag_schema
                ok == result[s].value[1]
                msg == result[s].value[2]
                bad == BadTopics(f.topics, schema)
            IN  /\ result[s].status = "ok"
                /\ ok <=> ~SomeTagInvalid(schema, f.category, f.type_tag, f.priority, f.topics)
                /\ ok => msg = NoMsg
                /\ (f.category = None /\ f.type_tag = None /\ f.priority = None
                        /\ f.topics = None) => ok
                /\ ~ok =>
                      IF Violates(f.category, schema.category)
                      THEN msg = InvalidMsg("Invalid category", f.category.v, schema.category)
                      ELSE IF Violates(f.type_tag, schema.type)
                      THEN msg = InvalidMsg("Invalid type", f.type_tag.v, schema.type)
                      ELSE IF Violates(f.priority, schema.priority)
                      THEN msg = InvalidMsg("Invalid priority", f.priority.v, schema.priority)
                      ELSE /\ bad # {}
                           /\ \E k \in bad :
                                 /\ \A m \in bad : k <= m
                                 /\ msg = InvalidMsg("Invalid topic", f.topics.v[k],
                                                     schema.topics)

\* the type is reported although the priority and the topic are not in
\* the schema either
C18_Witness ==
    \E s \in live :
        /\ Done(s, "validate_tags")
        /\ result[s].value[1] = FALSE
        /\ result[s].value[2].text = "Invalid type"
        /\ result[s].value[2].valid = data[s].tag_schema.type
        /\ Violates(result[s].args.priority, data[s].tag_schema.priority)
        /\ BadTopics(result[s].args.topics, data[s].tag_schema) # {}
        /\ Len(data[s].notes) > 0

\* of two topics that are not in the schema the first is reported, once
\* the priority provided with them has been added to the schema
C18_WitnessTopics ==
    \E s \in live :
        /\ Done(s, "validate_tags")
        /\ result[s].value[1] = FALSE
        /\ result[s].value[2] = InvalidMsg("Invalid topic", "yyy", data[s].tag_schema.topics)
        /\ Cardinality(BadTopics(result[s].args.topics, data[s].tag_schema)) = 2
        /\ result[s].args.priority.some

\* nothing provided: accepted
C18_WitnessOmitted ==
    \E s \in live :
        /\ Done(s, "validate_tags")
        /\ result[s].args.topics = None /\ result[s].args.category = None
        /\ result[s].value = <<TRUE, NoMsg>>

\* the notes, by index, that carry the tag in the dimension
Carriers(notes, d, tag) ==
    {i \in 1..Len(notes) :
        IF d = "topics" THEN tag \in Range(notes[i].tags.topics) ELSE notes[i].tags[d] = tag}

\* the tags of the dimension that some note carries
TagsInUse(notes, d) ==
    IF d = "topics" THEN UNION {Range(notes[i].tags.topics) : i \in 1..Len(notes)}
    ELSE {notes[i].tags[d] : i \in 1..Len(notes)}

(* C19: list_tags returns for each of category, type, priority and topics  *)
(* a mapping whose keys are the tags that at least one note carries and    *)
(* whose value for a tag is the number of notes that carry it.             *)
C19_ListTagsCountsNotes ==
    \A s \in live :
        Done(s, "list_tags") =>
            /\ result[s].status = "ok"
            /\ DOMAIN result[s].value = Dimensions
            /\ \A d \in Dimensions :
                  /\ DOMAIN result[s].value[d] = TagsInUse(pre[s].data.notes, d)
                  /\ \A tag \in DOMAIN result[s].value[d] :
                        result[s].value[d][tag] = Cardinality(Carriers(pre[s].data.notes, d, tag))

(* C20: when a caller writes to the value that get_schema, read_note,      *)
(* find_notes, create_note or update_note returned, or to the topics list  *)
(* it gave to create_note or update_note, the store's in-memory document   *)
(* stays as it is.                                                         *)
C20_NoAliasing ==
    [][\A s \in live :
          (result[s].status = "ok" /\ result'[s].status = "written")
              => data'[s] = data[s]
    ]_vars

\* the calls of _save that can raise while the temporary file exists
AfterMkstemp == {"json.dump", "os.replace"}

\* the save of s has raised to the caller
SaveFailed(s) == s \in live /\ pc[s] = "returned" /\ result[s].err = "OSError"

(* C21: after a save that failed once its temporary file existed, the      *)
(* temporary file is not in the directory and the error the caller gets is *)
(* the one of the write or of the rename.                                  *)
C21_FailedSaveLeavesNoTempFile ==
    \A s \in live :
        (SaveFailed(s) /\ result[s].msg.value # "tempfile.mkstemp")
            => /\ ~tmp[s].exists
               /\ result[s].msg.value \in AfterMkstemp

(* C21, amended: when a save fails once its temporary file exists, the     *)
(* clean-up ends with the error of the write or of the rename raised to    *)
(* the caller, never an error of the removal; the temporary file is then   *)
(* removed or, when the removal failed, it is in the directory as it was;  *)
(* the backing file and the document are as they were.  A save whose       *)
(* mkstemp failed and a save that succeeded leave no temporary file.       *)
C21_OriginalErrorAfterCleanup ==
    [][\A s \in live :
          /\ (pc[s] = "unlink" /\ pc'[s] = "returned") =>
                /\ result[s].msg.value \in AfterMkstemp
                /\ result'[s] = Raised(result[s].op, result[s].args, "OSError", result[s].msg)
                /\ tmp'[s] = NoFile \/ tmp'[s] = tmp[s]
                /\ target' = target
                /\ data'[s] = data[s]
          /\ (pc[s] \in {"mkstemp", "replace"} /\ pc'[s] = "returned") => ~tmp'[s].exists
    ]_vars

\* the rename failed, the temporary file was removed and the caller has
\* the error of the rename; the backing file is the earlier one
C21_Witness ==
    \E s \in live :
        /\ SaveFailed(s)
        /\ result[s].msg = OSErrorIn("os.replace")
        /\ ~tmp[s].exists
        /\ target.exists /\ target = pre[s].disk

\* the write failed and the removal too: the caller has the error of the
\* write and the temporary file is in the directory, with part of a document
C21_WitnessLeftBehind ==
    \E s \in live :
        /\ SaveFailed(s)
        /\ result[s].msg = OSErrorIn("json.dump")
        /\ tmp[s].exists /\ ~JsonLoad(tmp[s].content).ok

\* the step is the rename of a save of s
Renames(s) == pc[s] = "replace" /\ pc'[s] = "returned" /\ result'[s].status = "ok"

(* C22: with two stores on one backing file, whatever the interleaving of  *)
(* their steps, the rename of a save makes the backing file the document   *)
(* of the store that renames, whatever the file held, and leaves the other *)
(* store's document alone; no other step changes the backing file.  So the *)
(* file is the document of the store that renamed last.                    *)
C22_LastWriterWins ==
    [][/\ \A s \in live :
             Renames(s) =>
                 /\ Load(target') = [ok |-> TRUE, v |-> data[s]]
                 /\ \A r \in live \ {s} : data'[r] = data[r]
       /\ target' # target => \E s \in live : Renames(s)
    ]_vars

\* a lost update: A has created and saved a note, B, which had loaded
\* before, has added a tag and saved after A without any failure: the file
\* B is called on holds the note, the file B leaves is B's document,
\* without the note
C22_Witness ==
    /\ live = Stores
    /\ faults = 0
    /\ Succeeded("B", "add_tags_to_schema")
    /\ Len(Load(pre["B"].disk).v.notes) > 0
    /\ data["A"].notes = Load(pre["B"].disk).v.notes
    /\ Load(target) = [ok |-> TRUE, v |-> data["B"]]
    /\ data["B"].notes = <<>>
    /\ In("urgent", data["B"].tag_schema.priority)
    /\ ~In("urgent", data["A"].tag_schema.priority)

\* the sequence without its k-th element
Without(list, k) == [i \in 1..(Len(list) - 1) |-> IF i < k THEN list[i] ELSE list[i + 1]]

(* C23: a successful create_note leaves the notes there were, in their     *)
(* order, followed by the new note; a successful update_note leaves every  *)
(* note with another id as it was and the note with the id where it was;   *)
(* a successful delete_note leaves the notes there were without the one    *)
(* with the id, in their order; all three leave the schema as it was.      *)
C23_OnlyTheTargetChanges ==
    \A s \in live :
        LET before == pre[s].data.notes
            after == data[s].notes
        IN  /\ Succeeded(s, "create_note") =>
                  /\ after = before \o <<result[s].value>>
                  /\ result[s].value.id \notin Ids(pre[s].data)
                  /\ data[s].tag_schema = pre[s].data.tag_schema
            /\ Succeeded(s, "update_note") =>
                  /\ Len(after) = Len(before)
                  /\ \A i \in 1..Len(before) :
                        /\ after[i].id = before[i].id
                        /\ before[i].id # result[s].args.note_id => after[i] = before[i]
                  /\ data[s].tag_schema = pre[s].data.tag_schema
            /\ Succeeded(s, "delete_note") =>
                  /\ \E k \in 1..Len(before) :
                        /\ before[k].id = result[s].args.note_id
                        /\ after = Without(before, k)
                  /\ result[s].args.note_id \notin Ids(data[s])
                  /\ data[s].tag_schema = pre[s].data.tag_schema

\* the first of two notes was deleted: the second, which differs from it,
\* is the only note
C23_Witness ==
    \E s \in live :
        /\ Succeeded(s, "delete_note")
        /\ Len(pre[s].data.notes) = 2
        /\ result[s].args.note_id = pre[s].data.notes[1].id
        /\ pre[s].data.notes[1].tags # pre[s].data.notes[2].tags
        /\ data[s].notes = <<pre[s].data.notes[2]>>

\* the second of two notes was updated: the first is as it was, before it
C23_WitnessUpdate ==
    \E s \in live :
        /\ Succeeded(s, "update_note")
        /\ Len(data[s].notes) = 2
        /\ result[s].args.note_id = data[s].notes[2].id
        /\ data[s].notes[2] # pre[s].data.notes[2]
        /\ data[s].notes[1] = pre[s].data.notes[1]
        /\ Len(data[s].tag_schema.priority) > Len(SeedDocument.tag_schema.priority)

====
